---- MODULE Spec2Model ----
(***************************************************************************)
(* A model of w3g/w3gfile.py: the decoder of Warcraft III replay files.    *)
(*                                                                         *)
(* Bytes are integers 0..255 and byte strings are sequences of them.       *)
(* Python indexes from 0 and TLA+ from 1: every operator below takes and   *)
(* returns Python (0-based) offsets and converts at the point of access.   *)
(* Semantics are those of Python 3 (bytes indexing yields an int).         *)
(***************************************************************************)
EXTENDS Integers, Sequences, FiniteSets, TLC

VARIABLES
    pc,         \* position of the single thread of control
    f,          \* the byte source handed to File.__init__ (never written)
    loc,        \* File.loc: the read position in f
    header,     \* the attributes _read_header sets on the File
    nblk,       \* _read_blocks: the loop variable n (blocks read so far)
    buf,        \* _read_blocks: the local `data` being accumulated
    data,       \* _parse_blocks: the local `data` (the bytes not yet consumed)
    consumed,   \* history: the prefixes _parse_blocks has cut off `data`, in order
    startup,    \* the attributes _parse_startup sets on the File
    events,     \* File.events
    clock,      \* File._clock
    lastleft,   \* File._lastleft, as an index into events (0 is None)
    cache,      \* the lru_cache tables of File.player and File.player_name
    arg,        \* argument of the call in progress (pure functions, lookups)
    ret,        \* what the last call returned
    err         \* the exception that ended the decode or the last call ("" is none)

vars == <<pc, f, loc, header, nblk, buf, data, consumed, startup, events, clock,
          lastleft, cache, arg, ret, err>>

(***************************************************************************)
(* Program constants.                                                      *)
(***************************************************************************)
WORD == 2
DWORD == 4
NULL == 0

None == "None"

(***************************************************************************)
(* Python's sequence primitives.                                           *)
(***************************************************************************)
Min(a, b) == IF a < b THEN a ELSE b
Max(a, b) == IF a > b THEN a ELSE b

\* s[i:j] for 0 <= i and 0 <= j: both ends are clamped to len(s).
Slice(s, i, j) ==
    LET lo == Min(i, Len(s))
        hi == Min(j, Len(s))
    IN  IF hi <= lo THEN <<>> ELSE SubSeq(s, lo + 1, hi)

\* s[i:]
From(s, i) == Slice(s, i, Len(s))

\* i is a valid index of s (s[i] does not raise IndexError), for i >= 0.
HasIndex(s, i) == 0 <= i /\ i < Len(s)

\* s[i] where HasIndex(s, i).
At(s, i) == s[i + 1]

\* s.find(NULL): the index of the first zero byte, -1 when there is none.
find(s, x) ==
    IF \E i \in 1..Len(s) : s[i] = x
    THEN (CHOOSE i \in 1..Len(s) : s[i] = x /\ \A j \in 1..(i - 1) : s[j] # x) - 1
    ELSE -1

RECURSIVE b2i(_)
\* int.from_bytes(b, 'little'); b2i(b'') is 0.
b2i(b) == IF b = <<>> THEN 0 ELSE b[1] + 256 * b2i(Tail(b))

RECURSIVE And(_, _)
\* a & b on naturals.
And(a, b) ==
    IF a = 0 \/ b = 0 THEN 0
    ELSE (a % 2) * (b % 2) + 2 * And(a \div 2, b \div 2)

\* a << k
Shl(a, k) == a * 2 ^ k

\* bytes.decode('utf-8') of text whose bytes are all below 0x80 yields the same
\* code points; any byte from 0x80 up is reported as a decode error here (the
\* inputs of this development keep text in ASCII, so multi-byte sequences never
\* reach this operator).
decode(b) ==
    IF \A i \in 1..Len(b) : b[i] < 128 THEN [err |-> "", s |-> b]
    ELSE [err |-> "UnicodeDecodeError", s |-> <<>>]

\* nulltermstr(b): (b[:i].decode('utf-8'), i) with i = b.find(NULL). When b holds
\* no zero byte i is -1 and b[:-1] drops the last byte.
nulltermstr(b) ==
    LET i == find(b, NULL)
        raw == IF i >= 0 THEN Slice(b, 0, i) ELSE Slice(b, 0, Max(Len(b) - 1, 0))
        dec == decode(raw)
    IN  [err |-> dec.err, s |-> dec.s, i |-> i]

(***************************************************************************)
(* blizdecomp: the mask-byte transform of the settings string.             *)
(***************************************************************************)
\* The loop condition: b[pos] != 0 is false.
blizstop_skipmask(b, pos) == pos % 8 # 0 /\ At(b, pos) = 0
blizstop(b, pos) == At(b, pos) = 0

\* What one non-mask position appends to d.
blizemit_inverted(mask, pos, x) ==
    IF And(mask, Shl(1, pos % 8)) = 0 THEN x ELSE x - 1
blizemit(mask, pos, x) ==
    IF And(mask, Shl(1, pos % 8)) = 0 THEN x - 1 ELSE x

RECURSIVE blizloop(_, _, _, _)
blizloop(b, d, pos, mask) ==
    IF ~HasIndex(b, pos) THEN [err |-> "IndexError", d |-> d, pos |-> pos]
    ELSE IF blizstop(b, pos) THEN [err |-> "", d |-> d, pos |-> pos]
    ELSE IF pos % 8 = 0 THEN blizloop(b, d, pos + 1, At(b, pos))
    ELSE blizloop(b, Append(d, blizemit(mask, pos, At(b, pos))), pos + 1, mask)

blizdecomp(b) == blizloop(b, <<>>, 0, None)

(***************************************************************************)
(* Events.  An event is a record; `time` is Event.time.  A LeftGame's      *)
(* `next` is the index in File.events of the LeftGame it references, 0     *)
(* standing for None (events are only ever appended, so an index names     *)
(* one object for good).                                                   *)
(***************************************************************************)
remote_results ==
    (1 :> "left" @@ 7 :> "left" @@ 8 :> "lost" @@ 9 :> "won" @@ 10 :> "draw"
       @@ 11 :> "left")

local_not_last_results ==
    (1 :> "disconnected" @@ 7 :> "lost" @@ 8 :> "lost" @@ 9 :> "won"
       @@ 10 :> "draw" @@ 11 :> "lost")

local_last_results == (1 :> "disconnected" @@ 8 :> "lost" @@ 9 :> "won")

CHAT_MODES == (0 :> "all" @@ 1 :> "allies" @@ 2 :> "observers")

\* table[key], raising KeyError when the key is absent.
Lookup(table, key) ==
    IF key \in DOMAIN table THEN [err |-> "", r |-> table[key]]
    ELSE [err |-> "KeyError", r |-> None]

\* Event.__init__: the event takes the clock's value of the moment.
Event_time(clk) == clk

LeftGame(clk, player_id, closedby, resultflag, inc, unknownflag) ==
    [type |-> "LeftGame", time |-> Event_time(clk), player_id |-> player_id,
     closedby |-> closedby, resultflag |-> resultflag, inc |-> inc,
     unknownflag |-> unknownflag, next |-> 0]

Chat(clk, player_id, mode, msg) ==
    [type |-> "Chat", time |-> Event_time(clk), player_id |-> player_id,
     mode |-> mode, msg |-> msg]

Countdown(clk, mode, secs) ==
    [type |-> "Countdown", time |-> Event_time(clk), mode |-> mode, secs |-> secs]

\* LeftGame.result
LeftGame_result(e) ==
    IF e.closedby = "remote" THEN Lookup(remote_results, e.resultflag)
    ELSE IF e.closedby = "local" THEN
        IF e.next = 0 THEN
            IF e.resultflag = 7 \/ e.resultflag = 11
            THEN [err |-> "", r |-> IF e.inc THEN "won" ELSE "lost"]
            ELSE Lookup(local_last_results, e.resultflag)
        ELSE Lookup(local_not_last_results, e.resultflag)
    ELSE [err |-> "", r |-> "left"]

(***************************************************************************)
(* The record decoders of the event stream.  Each takes the File state it  *)
(* reads (evs = events, clk = _clock, last = _lastleft) and the bytes d    *)
(* from the record's tag on, and returns the state it leaves and the       *)
(* offset it returns, or the exception it raises.                          *)
(***************************************************************************)
Raise(e, evs, clk, last) ==
    [err |-> e, offset |-> 0, events |-> evs, clock |-> clk, lastleft |-> last]

Return(off, evs, clk, last) ==
    [err |-> "", offset |-> off, events |-> evs, clock |-> clk, lastleft |-> last]

\* _parse_leave_game, "compute inc"
compute_inc_same(evs, last, unknownflag) ==
    IF last = 0 THEN FALSE
    ELSE unknownflag = evs[last].unknownflag
compute_inc(evs, last, unknownflag) ==
    IF last = 0 THEN FALSE
    ELSE unknownflag = evs[last].unknownflag + 1

\* _parse_leave_game, "compute closedby"
compute_closedby(reason) ==
    IF reason = 1 THEN "remote"
    ELSE IF reason = 12 THEN "local"
    ELSE "unknown"

\* _parse_leave_game: events.append(e), then _lastleft.next = e when there is a
\* last one.  The appended event has index Len(evs) + 1.
chain_append_unlinked(evs, last, e) == Append(evs, e)
chain_append(evs, last, e) ==
    IF last # 0
    THEN Append([evs EXCEPT ![last].next = Len(evs) + 1], e)
    ELSE Append(evs, e)

parse_leave_game(d, evs, clk, last) ==
    LET reason == b2i(Slice(d, 1, 1 + DWORD))
        res == b2i(Slice(d, 6, 6 + DWORD))
        unknownflag == b2i(Slice(d, 10, 10 + DWORD))
        inc == compute_inc(evs, last, unknownflag)
        closedby == compute_closedby(reason)
    IN  IF ~HasIndex(d, 5) THEN Raise("IndexError", evs, clk, last)
        ELSE LET e == LeftGame(clk, At(d, 5), closedby, res, inc, unknownflag)
             IN  Return(14, chain_append(evs, last, e), clk, Len(evs) + 1)

\* File has no attribute _parse_actions: the call at line 517 raises.
parse_actions(player_id, action_block) == "AttributeError"

RECURSIVE time_slot_loop(_)
\* The while loop of _parse_time_slot over cmddata: "" when it runs to the end.
time_slot_loop(cmddata) ==
    IF Len(cmddata) > 0 THEN
        LET player_id == At(cmddata, 0)
            i == b2i(Slice(cmddata, 1, 1 + WORD))
            action_block == Slice(cmddata, 1 + WORD, i + 1 + WORD)
            raised == parse_actions(player_id, action_block)
        IN  IF raised # "" THEN raised
            ELSE time_slot_loop(From(cmddata, i + 1 + WORD))
    ELSE ""

\* _parse_time_slot, the clock update
advance_clock_set(clk, dt) == dt
advance_clock(clk, dt) == clk + dt

parse_time_slot(d, evs, clk, last) ==
    LET n == b2i(Slice(d, 1, 1 + WORD))
        dt == b2i(Slice(d, 1 + WORD, 1 + WORD + WORD))
        cmddata == Slice(d, 1 + WORD + WORD, n + 3)
        raised == time_slot_loop(cmddata)
    IN  IF raised # "" THEN Raise(raised, evs, clk, last)
        ELSE Return(n + 3, evs, advance_clock(clk, dt), last)

parse_chat(d, evs, clk, last) ==
    IF ~HasIndex(d, 1) \/ ~HasIndex(d, 4) THEN Raise("IndexError", evs, clk, last)
    ELSE
    LET player_id == At(d, 1)
        n == b2i(Slice(d, 2, 2 + WORD))
        flags == At(d, 4)
        m == b2i(Slice(d, 5, 5 + DWORD))
        offset == IF flags = 16 THEN 5 ELSE 5 + DWORD
        mode == IF flags = 16 THEN <<"startup">>
                ELSE IF m \in DOMAIN CHAT_MODES THEN <<CHAT_MODES[m]>>
                ELSE <<"player", m - 3>>
        msg == nulltermstr(From(d, offset))
    IN  IF msg.err # "" THEN Raise(msg.err, evs, clk, last)
        ELSE Return(n + 4, Append(evs, Chat(clk, player_id, mode, msg.s)), clk, last)

parse_countdown(d, evs, clk, last) ==
    LET m == b2i(Slice(d, 1, 1 + DWORD))
        mode == IF m = 0 THEN "running" ELSE "over"
        secs == b2i(Slice(d, 1 + DWORD, 1 + DWORD + DWORD))
    IN  Return(9, Append(evs, Countdown(clk, mode, secs)), clk, last)

\* The lambdas of _parsers: records that are skipped.
fixed_sizes == (26 :> 5 @@ 27 :> 5 @@ 28 :> 5 @@ 34 :> 6 @@ 35 :> 11)

\* _parsers[blockid](data): the dispatch of _parse_blocks.
dispatch_lenient(blockid, d, evs, clk, last) ==
    IF blockid = 23 THEN parse_leave_game(d, evs, clk, last)
    ELSE IF blockid \in DOMAIN fixed_sizes THEN Return(fixed_sizes[blockid], evs, clk, last)
    ELSE IF blockid = 30 \/ blockid = 31 THEN parse_time_slot(d, evs, clk, last)
    ELSE IF blockid = 32 THEN parse_chat(d, evs, clk, last)
    ELSE IF blockid = 47 THEN parse_countdown(d, evs, clk, last)
    ELSE Return(1, evs, clk, last)
dispatch(blockid, d, evs, clk, last) ==
    IF blockid = 23 THEN parse_leave_game(d, evs, clk, last)
    ELSE IF blockid \in DOMAIN fixed_sizes THEN Return(fixed_sizes[blockid], evs, clk, last)
    ELSE IF blockid = 30 \/ blockid = 31 THEN parse_time_slot(d, evs, clk, last)
    ELSE IF blockid = 32 THEN parse_chat(d, evs, clk, last)
    ELSE IF blockid = 47 THEN parse_countdown(d, evs, clk, last)
    ELSE Raise("KeyError", evs, clk, last)

(***************************************************************************)
(* _parse_blocks, the loop over the event records.  blockid is data[0];    *)
(* reading it from an empty `data` raises IndexError.                      *)
(***************************************************************************)
KnownTags == {23, 30, 31, 32, 47} \cup DOMAIN fixed_sizes

\* arg and ret before any call; the lru_cache tables before any lookup
NoCall == [op |-> "none"]
NoCache == [player |-> <<>>, player_name |-> <<>>]

fileVars == <<f, loc, header, nblk, buf>>
callVars == <<cache, arg, ret>>

\* offset = _parsers[blockid](data); data = data[offset:]
Step(r) ==
    /\ events' = r.events
    /\ clock' = r.clock
    /\ lastleft' = r.lastleft
    /\ IF r.err # ""
       THEN /\ pc' = "failed"
            /\ err' = r.err
            /\ UNCHANGED <<data, consumed>>
       ELSE /\ data' = From(data, r.offset)
            /\ consumed' = Append(consumed, Slice(data, 0, r.offset))
            /\ UNCHANGED <<pc, err>>
    /\ UNCHANGED <<fileVars, startup, callVars>>

AtBlock(tags) == pc = "events" /\ HasIndex(data, 0) /\ At(data, 0) \in tags

ParseLeaveGame ==
    /\ AtBlock({23})
    /\ Step(dispatch(At(data, 0), data, events, clock, lastleft))

SkipFixed ==
    /\ AtBlock(DOMAIN fixed_sizes)
    /\ Step(dispatch(At(data, 0), data, events, clock, lastleft))

ParseTimeSlot ==
    /\ AtBlock({30, 31})
    /\ Step(dispatch(At(data, 0), data, events, clock, lastleft))

ParseChat ==
    /\ AtBlock({32})
    /\ Step(dispatch(At(data, 0), data, events, clock, lastleft))

ParseCountdown ==
    /\ AtBlock({47})
    /\ Step(dispatch(At(data, 0), data, events, clock, lastleft))

UnknownBlock ==
    /\ AtBlock((1..255) \ KnownTags)
    /\ Step(dispatch(At(data, 0), data, events, clock, lastleft))

\* blockid == 0: the loop ends, _parse_blocks, _read_blocks and __init__ return.
EndOfBlocks ==
    /\ AtBlock({0})
    /\ pc' = "done"
    /\ UNCHANGED <<fileVars, data, consumed, startup, events, clock, lastleft,
                   callVars, err>>

\* b2i(data[0]) with nothing left of data.
NoBlockId ==
    /\ pc = "events"
    /\ ~HasIndex(data, 0)
    /\ pc' = "failed"
    /\ err' = "IndexError"
    /\ UNCHANGED <<fileVars, data, consumed, startup, events, clock, lastleft,
                   callVars>>

\* LeftGame.result() on an event of the decoded File (as LeftGame.__str__ does).
Result ==
    /\ pc = "done"
    /\ \E i \in 1..Len(events) :
          /\ events[i].type = "LeftGame"
          /\ arg' = [op |-> "result", i |-> i]
          /\ ret' = [op |-> "result", val |-> LeftGame_result(events[i])]
    /\ UNCHANGED <<pc, fileVars, data, consumed, startup, events, clock, lastleft,
                   cache, err>>

(***************************************************************************)
(* Inputs: event streams, written by the encoders below.                   *)
(***************************************************************************)
MaxRecs == 3

\* v as k little-endian bytes
i2b(v, k) == [i \in 1..k |-> (v \div (256 ^ (i - 1))) % 256]

Zeros(k) == [i \in 1..k |-> 0]

MkLeft(reason, pid, res, flag) ==
    <<23>> \o i2b(reason, 4) \o <<pid>> \o i2b(res, 4) \o i2b(flag, 4)

MkSub(pid, payload) == <<pid>> \o i2b(Len(payload), 2) \o payload

MkTimeSlot(tag, dt, subs) == <<tag>> \o i2b(2 + Len(subs), 2) \o i2b(dt, 2) \o subs

MkChat(pid, flags, m, msg) ==
    LET body == <<flags>> \o (IF flags = 16 THEN <<>> ELSE i2b(m, 4)) \o msg \o <<0>>
    IN  <<32, pid>> \o i2b(Len(body), 2) \o body

MkCountdown(m, secs) == <<47>> \o i2b(m, 4) \o i2b(secs, 4)

MkFixed(tag) == <<tag>> \o Zeros(fixed_sizes[tag] - 1)

\* (reason, result code): the branches of LeftGame.result, table hits and misses.
LeftKinds == {<<1, 1>>, <<1, 2>>, <<12, 1>>, <<12, 7>>, <<12, 10>>, <<12, 2>>, <<0, 7>>}

LeftRecs ==
    {MkLeft(k[1], 2, k[2], 0) : k \in LeftKinds}
        \cup {MkLeft(1, 2, 1, 1), MkLeft(12, 2, 7, 1), MkLeft(12, 2, 11, 5)}

OtherRecs ==
    { MkFixed(35),
      MkTimeSlot(31, 100, <<>>), MkTimeSlot(30, 7, <<>>),
      MkTimeSlot(31, 50, MkSub(1, <<1>>)),
      MkChat(1, 16, 0, <<104, 105>>), MkChat(2, 32, 5, <<111, 107>>),
      MkCountdown(0, 90),
      <<255>> }

Recs == LeftRecs \cup OtherRecs

\* records that appear only alone in a stream
SingleRecs ==
    {MkFixed(t) : t \in DOMAIN fixed_sizes}
        \cup {MkChat(2, 32, 1, <<>>), MkCountdown(1, 0),
              MkTimeSlot(30, 50, MkSub(1, <<>>) \o MkSub(2, <<1, 2>>))}

RECURSIVE Flatten(_)
\* the concatenation of a sequence of byte strings
Flatten(ss) == IF Len(ss) = 0 THEN <<>> ELSE Head(ss) \o Flatten(Tail(ss))

\* every prefix of a single record: streams cut short
CutRecs == {Slice(r, 0, k) : r \in Recs, k \in 0..12}

\* The state _parse_blocks is in when _parse_startup has returned and the
\* startup prefix is cut off: any bytes may follow the startup record.  Here:
\* at most MaxRecs records of Recs and the closing zero; or a single record of
\* SingleRecs and the closing zero; or a record cut short.
InitEvents ==
    /\ pc = "events"
    /\ \/ \E n \in 0..MaxRecs : \E rs \in [1..n -> Recs] : data = Flatten(rs) \o <<0>>
       \/ \E r \in SingleRecs : data = r \o <<0>>
       \/ data \in CutRecs
    /\ consumed = <<>>
    /\ events = <<>>
    /\ clock = 0
    /\ lastleft = 0
    /\ f = <<>> /\ loc = 0 /\ header = None /\ nblk = 0 /\ buf = <<>>
    /\ startup = None
    /\ cache = NoCache /\ arg = NoCall /\ ret = NoCall
    /\ err = ""

NextEvents ==
    \/ ParseLeaveGame
    \/ SkipFixed
    \/ ParseTimeSlot
    \/ ParseChat
    \/ ParseCountdown
    \/ UnknownBlock
    \/ EndOfBlocks
    \/ NoBlockId
    \/ Result

SpecEvents == InitEvents /\ [][NextEvents]_vars

(***************************************************************************)
(* Properties of the event-stream parse (checked under SpecEvents).        *)
(***************************************************************************)
\* Read off the raw record, independently of the decoders.
\* (A record cut short by the end of the input lacks its last bytes; a field
\* read across the end takes the missing bytes as absent.)
Byte(rec, k) == IF k <= Len(rec) THEN rec[k] ELSE 0
RecFlag(rec) ==
    Byte(rec, 11) + 256 * Byte(rec, 12) + 65536 * Byte(rec, 13) + 16777216 * Byte(rec, 14)
RecLen(rec) == Byte(rec, 2) + 256 * Byte(rec, 3)
RecDt(rec) == Byte(rec, 4) + 256 * Byte(rec, 5)

RECURSIVE SumDt(_)
\* the sum of the clock deltas of the time-advance records among recs
SumDt(recs) ==
    IF recs = <<>> THEN 0
    ELSE (IF Head(recs)[1] \in {30, 31} THEN RecDt(Head(recs)) ELSE 0) + SumDt(Tail(recs))

\* The consumed records that produce an event, and the one behind the i-th event.
Producers == {j \in 1..Len(consumed) : consumed[j][1] \in {23, 32, 47}}
ProducerOf(i) == CHOOSE j \in Producers : Cardinality({k \in Producers : k <= j}) = i
TypeOfTag(t) == IF t = 23 THEN "LeftGame" ELSE IF t = 32 THEN "Chat" ELSE "Countdown"

\* The LeftGame events, and each one's neighbours among them (0: none).
Lefts == {i \in 1..Len(events) : events[i].type = "LeftGame"}
PrevLeft(i) ==
    IF \E j \in Lefts : j < i
    THEN CHOOSE j \in Lefts : j < i /\ \A k \in Lefts : k < i => k <= j
    ELSE 0
NextLeft(i) ==
    IF \E j \in Lefts : j > i
    THEN CHOOSE j \in Lefts : j > i /\ \A k \in Lefts : k > i => k >= j
    ELSE 0

\* The sub-records of a time-advance record's body tile it exactly.
RECURSIVE Tiled(_)
Tiled(body) ==
    \/ body = <<>>
    \/ /\ Len(body) >= 3
       /\ Len(body) >= 3 + body[2] + 256 * body[3]
       /\ Tiled(From(body, 3 + body[2] + 256 * body[3]))

WellFormedTimeSlot(d) ==
    /\ Len(d) >= 5
    /\ RecLen(d) >= 2
    /\ Len(d) >= RecLen(d) + 3
    /\ Tiled(Slice(d, 5, RecLen(d) + 3))

\* C1 (as claimed): every time-advance record, with or without embedded action
\* sub-records, is decoded without failure, advances the clock by exactly dt and
\* consumes n + 3 bytes.
C1_TimeSlotDecodes ==
    [][(AtBlock({30, 31}) /\ WellFormedTimeSlot(data))
          => /\ pc' = "events"
             /\ err' = ""
             /\ clock' = clock + RecDt(data)
             /\ data' = From(data, RecLen(data) + 3)
             /\ events' = events]_vars

\* The part of C1 the code does satisfy: a time-advance record that embeds no
\* sub-record is decoded without failure, advances the clock by dt and consumes
\* n + 3 bytes.
C1_TimeSlotWithoutSubRecords ==
    [][(AtBlock({30, 31}) /\ WellFormedTimeSlot(data) /\ RecLen(data) = 2)
          => /\ pc' = "events"
             /\ err' = ""
             /\ clock' = clock + RecDt(data)
             /\ data' = From(data, RecLen(data) + 3)
             /\ events' = events]_vars

\* The outcome C2 states for the i-th event, a LeftGame: by its closer, by
\* whether a later LeftGame event exists in the event sequence, and by its
\* is-consecutive flag.
ClaimedOutcome(i) ==
    LET e == events[i]
    IN  IF e.closedby = "remote" THEN Lookup(remote_results, e.resultflag)
        ELSE IF e.closedby = "local" /\ NextLeft(i) # 0
             THEN Lookup(local_not_last_results, e.resultflag)
        ELSE IF e.closedby = "local" /\ e.resultflag \in {7, 11}
             THEN [err |-> "", r |-> IF e.inc THEN "won" ELSE "lost"]
        ELSE IF e.closedby = "local" THEN Lookup(local_last_results, e.resultflag)
        ELSE [err |-> "", r |-> "left"]

\* C2: once the whole stream is decoded, result() of a LeftGame event is the
\* remote-table entry when the closer is remote; the local-not-last entry when
\* the closer is local and a later LeftGame event exists; for a local closer on
\* the most recent LeftGame event, won/lost by is-consecutive for codes 0x07 and
\* 0x0B and the local-last entry otherwise; and "left" for any other closer.
C2_OutcomeResolution ==
    ret.op = "result" =>
        /\ pc = "done"
        /\ arg.i \in Lefts
        /\ ret.val = ClaimedOutcome(arg.i)

\* A local disconnect that was consecutive (so the local-last rule would say
\* "won") but has a successor resolves through the local-not-last table.
C2_Witness ==
    /\ ret.op = "result"
    /\ events[arg.i].closedby = "local"
    /\ events[arg.i].resultflag = 7
    /\ events[arg.i].inc
    /\ NextLeft(arg.i) # 0
    /\ ret.val.r = "lost"

\* C3: the first disconnect record's is-consecutive flag is false; the k-th one's
\* is true iff its sequence flag is the (k-1)-th one's plus 1, whatever records
\* lie between; each LeftGame event's next is the LeftGame event after it and
\* the most recent one has none.
C3_DisconnectChain ==
    /\ Cardinality(Lefts) = Cardinality({j \in Producers : consumed[j][1] = 23})
    /\ \A i \in Lefts :
          /\ consumed[ProducerOf(i)][1] = 23
          /\ events[i].unknownflag = RecFlag(consumed[ProducerOf(i)])
          /\ IF PrevLeft(i) = 0 THEN events[i].inc = FALSE
             ELSE events[i].inc =
                    (RecFlag(consumed[ProducerOf(i)])
                        = RecFlag(consumed[ProducerOf(PrevLeft(i))]) + 1)
          /\ events[i].next = NextLeft(i)
    /\ lastleft = (IF Lefts = {} THEN 0 ELSE CHOOSE i \in Lefts : NextLeft(i) = 0)

\* Three disconnects, the second consecutive to the first across another record
\* kind would need four records; here: two disconnects with a record between
\* them, the second consecutive, and the chain linked.
C3_Witness ==
    /\ Len(events) = 3
    /\ events[1].type = "LeftGame" /\ events[3].type = "LeftGame"
    /\ events[2].type # "LeftGame"
    /\ events[3].inc
    /\ events[1].next = 3

\* C7: at a non-zero tag byte that is not a recognised tag the decode fails at
\* once with the unknown-block error (a KeyError of the dispatch table): no
\* event is appended, the clock and the disconnect chain are unchanged, the
\* cursor stays on the record, and the decode never completes.
C7_UnknownTagFails ==
    [][/\ (AtBlock((1..255) \ KnownTags)
             => /\ pc' = "failed"
                /\ err' = "KeyError"
                /\ events' = events
                /\ clock' = clock
                /\ lastleft' = lastleft
                /\ data' = data
                /\ consumed' = consumed)
       /\ (pc = "failed" => pc' = "failed")]_vars

C7_Witness ==
    /\ pc = "failed"
    /\ err = "KeyError"
    /\ At(data, 0) = 255
    /\ Len(consumed) = 2
    /\ Len(events) = 1
    /\ clock = 100

\* C10: the clock is the sum of the deltas of the time-advance records decoded
\* so far; the events are those of the event-producing records, in stream
\* order, each stamped with the clock of the moment its record was decoded;
\* so timestamps never decrease along the event sequence.
C10_ClockAndTimestamps ==
    /\ clock = SumDt(consumed)
    /\ Len(events) = Cardinality(Producers)
    /\ \A i \in 1..Len(events) :
          /\ events[i].type = TypeOfTag(consumed[ProducerOf(i)][1])
          /\ events[i].time = SumDt(SubSeq(consumed, 1, ProducerOf(i) - 1))
    /\ \A i, j \in 1..Len(events) : i <= j => events[i].time <= events[j].time

C10_Witness ==
    /\ Len(events) = 2
    /\ events[1].time = 0
    /\ events[2].time = 100
    /\ Len(consumed) = 3
    /\ clock = 100

(***************************************************************************)
(* blizdecomp on its own: one call on an input drawn from the byte strings *)
(* below.                                                                  *)
(***************************************************************************)
MaxDecompLen == 11

\* 0 ends the input; 2 has only bit 1 set; 109 = 0x6D has bits 0, 2, 3, 5, 6 set.
DecompBytes == {0, 2, 109}

Hello == <<104, 101, 108, 108, 111>>
HelloZeroMask == <<0, 105, 102, 109, 109, 112, 0>>
HelloOneMask == <<1, 105, 102, 109, 109, 112, 0>>

\* The inputs: every string over DecompBytes of length at most MaxDecompLen, and
\* the two spellings of "hello".
InitDecomp ==
    /\ pc = "call"
    /\ \/ \E n \in 0..MaxDecompLen : \E b \in [1..n -> DecompBytes] :
             arg = [op |-> "blizdecomp", b |-> b]
       \/ \E b \in {HelloZeroMask, HelloOneMask} :
             arg = [op |-> "blizdecomp", b |-> b]
    /\ ret = NoCall
    /\ err = ""
    /\ data = <<>> /\ consumed = <<>> /\ events = <<>> /\ clock = 0 /\ lastleft = 0
    /\ f = <<>> /\ loc = 0 /\ header = None /\ nblk = 0 /\ buf = <<>>
    /\ startup = None
    /\ cache = NoCache

Blizdecomp ==
    /\ pc = "call"
    /\ arg.op = "blizdecomp"
    /\ LET r == blizdecomp(arg.b)
       IN  /\ ret' = [op |-> "blizdecomp", d |-> r.d, pos |-> r.pos]
           /\ err' = r.err
    /\ pc' = "returned"
    /\ UNCHANGED <<fileVars, data, consumed, startup, events, clock, lastleft,
                   cache, arg>>

NextDecomp == Blizdecomp

SpecDecomp == InitDecomp /\ [][NextDecomp]_vars

\* bit k of byte m
Bit(m, k) == (m \div (2 ^ k)) % 2

\* the index of the first zero byte of b (b holds one)
FirstZero(b) == CHOOSE z \in 0..(Len(b) - 1) : b[z + 1] = 0 /\ \A q \in 1..z : b[q] # 0

\* the k-th position, counting from 1, that is no multiple of 8
EmitPos(k) == k + (k - 1) \div 7

\* what C4 states the output to be, for an input whose first zero is at z
ClaimedOutput(b, z) ==
    [k \in 1..Cardinality({p \in 0..(z - 1) : p % 8 # 0}) |->
        LET p == EmitPos(k)
            m == b[p - (p % 8) + 1]
        IN  IF Bit(m, p % 8) = 0 THEN b[p + 1] - 1 ELSE b[p + 1]]

\* C4: for an input whose first zero byte is at index z the decoder returns z
\* and, in order over the positions p < z that are no multiple of 8, input[p] - 1
\* when bit p mod 8 of the run's mask byte input[p - p mod 8] is 0 and input[p]
\* when it is 1; mask positions and the zero byte are not emitted.
C4_DecoderOutput ==
    (ret.op = "blizdecomp" /\ \E q \in 1..Len(arg.b) : arg.b[q] = 0)
        => LET z == FirstZero(arg.b)
           IN  /\ err = ""
               /\ ret.pos = z
               /\ ret.d = ClaimedOutput(arg.b, z)

\* an input that reaches into the second run, with bytes emitted both ways
C4_Witness ==
    /\ ret.op = "blizdecomp"
    /\ arg.b = <<109, 2, 2, 109, 2, 109, 2, 109, 2, 109, 0>>
    /\ ret.pos = 10
    /\ Len(ret.d) = 8

\* C5 (as claimed): [0x00, 0x69, 0x66, 0x6D, 0x6D, 0x70, 0x00] decodes to "hello"
\* with consumed length 6, and a zero byte at a run start is taken as a mask and
\* does not end the decoding.
C5_ZeroMaskIsConsumed ==
    ret.op = "blizdecomp" =>
        /\ arg.b = HelloZeroMask => (ret.d = Hello /\ ret.pos = 6)
        /\ (Len(arg.b) >= 2 /\ arg.b[1] = 0 /\ arg.b[2] # 0) => ret.pos >= 1

\* C5 (amended): a zero byte ends the decoding wherever it stands, at a run
\* start too: [0x00, 0x69, 0x66, 0x6D, 0x6D, 0x70, 0x00] decodes to the empty
\* string with length 0, and an input whose first zero byte is at a run start
\* q (0, 8, ...) returns q with exactly 7 bytes emitted per run before it. With
\* the mask byte 0x01 in front instead, [0x01, 0x69, 0x66, 0x6D, 0x6D, 0x70,
\* 0x00] decodes to "hello" with length 6.
C5_ZeroMaskEndsDecoding ==
    ret.op = "blizdecomp" =>
        /\ arg.b = HelloZeroMask => (ret.d = <<>> /\ ret.pos = 0 /\ err = "")
        /\ arg.b = HelloOneMask => (ret.d = Hello /\ ret.pos = 6 /\ err = "")
        /\ \A q \in {0, 8} :
              (/\ Len(arg.b) > q
               /\ arg.b[q + 1] = 0
               /\ \A j \in 1..q : arg.b[j] # 0)
                  => (ret.pos = q /\ Len(ret.d) = 7 * (q \div 8) /\ err = "")

C5_Witness ==
    /\ ret.op = "blizdecomp"
    /\ arg.b = HelloZeroMask
    /\ ret.d = <<>>
    /\ ret.pos = 0

(***************************************************************************)
(* The startup record: tables, Player and SlotRecord, _parse_startup.      *)
(***************************************************************************)
RACES ==
    (1 :> "human" @@ 2 :> "orc" @@ 4 :> "nightelf" @@ 8 :> "undead"
       @@ 16 :> "daemon" @@ 32 :> "random" @@ 64 :> "selectable/fixed")
SPEED == <<"slow", "normal", "fast", "unused">>
OBSERVER == <<"off", "unused", "defeat", "on">>
FIXED_TEAMS == <<"off", "unused", "unused", "on">>
GAME_TYPES ==
    (0 :> "unknown" @@ 1 :> "1on1" @@ 9 :> "custom" @@ 29 :> "single player game"
       @@ 32 :> "ladder team game")
STATUS == (0 :> "empty" @@ 1 :> "closed" @@ 2 :> "used")
COLORS ==
    <<"red", "blue", "cyan", "purple", "yellow", "orange", "green", "pink", "gray",
      "light blue", "dark green", "brown", "observer">>
AI_STRENGTH == (0 :> "easy" @@ 1 :> "normal" @@ 2 :> "insane")
SELECT_MODES ==
    (0 :> "team & race selectable" @@ 1 :> "team not selectable"
       @@ 3 :> "team & race not selectable" @@ 4 :> "race fixed to random"
       @@ 204 :> "automated match making")

\* bits(b): the bits of a byte, least significant first
bits(b) == [i \in 1..8 |-> (b \div (2 ^ (i - 1))) % 2]

\* bitfield(b, slice(lo, hi)): the bits lo..hi-1 of b as an integer
bitfield(b, lo, hi) ==
    LET fld == Slice(bits(b), lo, hi)
        sum[i \in 0..Len(fld)] == IF i = 0 THEN 0 ELSE sum[i - 1] + fld[i] * 2 ^ (i - 1)
    IN  sum[Len(fld)]

\* Player.from_raw
Player_from_raw(d) ==
    IF ~HasIndex(d, 0) \/ ~HasIndex(d, 1) THEN [err |-> "IndexError"]
    ELSE
    LET name == nulltermstr(From(d, 2))
        n == 2 + name.i + 1
    IN  IF name.err # "" THEN [err |-> name.err]
        ELSE IF ~HasIndex(d, n) THEN [err |-> "IndexError"]
        ELSE
        LET custom_or_ladder == At(d, n)
            runtime == b2i(Slice(d, n + 1, n + 1 + 4))
            race_flag == b2i(Slice(d, n + 5, n + 5 + 4))
            size == IF custom_or_ladder = 1 THEN n + 2 ELSE n + 9
            p == [cls |-> "Player", id |-> At(d, 1), name |-> name.s,
                  ishost |-> (At(d, 0) = 0), raw |-> Slice(d, 0, size), size |-> size]
        IN  IF custom_or_ladder = 1
            THEN [err |-> "", p |-> p @@ [runtime |-> 0, race |-> "none"]]
            ELSE IF custom_or_ladder = 8
            THEN IF race_flag \in DOMAIN RACES
                 THEN [err |-> "", p |-> p @@ [runtime |-> runtime,
                                               race |-> RACES[race_flag]]]
                 ELSE [err |-> "KeyError"]
            ELSE [err |-> "ValueError"]

\* SlotRecord.from_raw
SlotRecord_from_raw(d) ==
    IF Len(d) < 3 THEN [err |-> "IndexError"]
    ELSE IF At(d, 2) \notin DOMAIN STATUS THEN [err |-> "KeyError"]
    ELSE IF Len(d) < 6 THEN [err |-> "IndexError"]
    ELSE IF At(d, 5) >= Len(COLORS) THEN [err |-> "IndexError"]
    ELSE IF Len(d) < 7 THEN [err |-> "IndexError"]
    ELSE IF 8 <= Len(d) /\ At(d, 7) \notin DOMAIN AI_STRENGTH THEN [err |-> "KeyError"]
    ELSE [err |-> "",
          r |-> [cls |-> "SlotRecord", player_id |-> At(d, 0),
                 status |-> STATUS[At(d, 2)], ishuman |-> (At(d, 3) = 0),
                 team |-> At(d, 4), color |-> COLORS[At(d, 5) + 1],
                 race |-> IF At(d, 6) \in DOMAIN RACES THEN RACES[At(d, 6)] ELSE "none",
                 ai |-> IF 8 <= Len(d) THEN AI_STRENGTH[At(d, 7)] ELSE "normal",
                 handicap |-> IF 9 <= Len(d) THEN At(d, 8) ELSE 100,
                 raw |-> d, size |-> Len(d)]]

\* int(a / b) for b > 0: true division, truncated towards zero
int_div(a, b) == IF a >= 0 THEN a \div b ELSE -((-a) \div b)

RECURSIVE more_players(_, _, _)
\* _parse_startup, the loop over the 0x16 player records
more_players(d, offset, players) ==
    IF ~HasIndex(d, offset) THEN [err |-> "IndexError", offset |-> offset, players |-> players]
    ELSE IF At(d, offset) # 22 THEN [err |-> "", offset |-> offset, players |-> players]
    ELSE LET p == Player_from_raw(From(d, offset))
         IN  IF p.err # "" THEN [err |-> p.err, offset |-> offset, players |-> players]
             ELSE more_players(d, offset + p.p.size + 4, Append(players, p.p))

\* players and slot_records before _parse_startup assigns them (once assigned
\* neither is empty: there is a host, and no slot records means a division by 0).
Unset == [players |-> <<>>, slot_records |-> <<>>]

\* _parse_startup, from the assert on the slot-info tag to the slot records:
\* the attribute slot_records and the offset after the records.
parse_slot_info(d, offset) ==
    IF ~HasIndex(d, offset) THEN [err |-> "IndexError"]
    ELSE IF At(d, offset) # 25 THEN [err |-> "AssertionError"]
    ELSE IF ~HasIndex(d, offset + 1 + WORD) THEN [err |-> "IndexError"]
    ELSE
    LET nstartbytes == b2i(Slice(d, offset + 1, offset + 1 + WORD))
        nrecs == At(d, offset + 1 + WORD)
        first == offset + 1 + WORD + 1
        recsize == int_div(nstartbytes - DWORD - 3, nrecs)
        rawrecs == Slice(d, first, first + recsize * nrecs)
        recs == [n \in 1..nrecs |->
                    SlotRecord_from_raw(Slice(rawrecs, (n - 1) * recsize, n * recsize))]
    IN  IF nrecs = 0 THEN [err |-> "ZeroDivisionError"]
        ELSE IF ~(7 <= recsize /\ recsize <= 9) THEN [err |-> "AssertionError"]
        ELSE IF \E n \in 1..nrecs : recs[n].err # ""
             THEN [err |-> recs[CHOOSE n \in 1..nrecs :
                                   recs[n].err # "" /\ \A k \in 1..(n - 1) : recs[k].err = ""].err]
        ELSE [err |-> "", slot_records |-> [n \in 1..nrecs |-> recs[n].r],
              recsize |-> recsize, offset |-> first + recsize * nrecs]

\* _parse_startup, the settings decoded out of the blizdecomp'ed string
parse_settings(decomp) ==
    IF Len(decomp) < 4 THEN [err |-> "IndexError"]
    ELSE
    LET settings == Slice(decomp, 0, 13)
        vis == bits(At(settings, 1))
        ctl == bits(At(settings, 3))
        map_name == nulltermstr(From(decomp, 13))
        creator_name == nulltermstr(From(decomp, 13 + map_name.i + 1))
    IN  IF map_name.err # "" THEN [err |-> map_name.err]
        ELSE IF creator_name.err # "" THEN [err |-> creator_name.err]
        ELSE [err |-> "",
              a |-> [game_speed |-> SPEED[bitfield(At(settings, 0), 0, 2) + 1],
                     visibility_hide_terrain |-> (vis[1] = 1),
                     visibility_map_explored |-> (vis[2] = 1),
                     visibility_always_visible |-> (vis[3] = 1),
                     visibility_default |-> (vis[4] = 1),
                     observer |-> OBSERVER[vis[5] + 2 * vis[6] + 1],
                     teams_together |-> (vis[7] = 1),
                     fixed_teams |-> FIXED_TEAMS[bitfield(At(settings, 2), 1, 3) + 1],
                     full_shared_unit_control |-> (ctl[1] = 1),
                     random_hero |-> (ctl[2] = 1),
                     random_races |-> (ctl[3] = 1),
                     observer_referees |-> (ctl[7] = 1),
                     map_name |-> map_name.s,
                     creator_name |-> creator_name.s]]

\* An exception out of _parse_startup with the attributes `a` assigned before it.
StartupRaise(e, a) == [err |-> e, offset |-> 0, a |-> a]

\* _parse_startup, the last section: select mode and start positions, with
\* the random seed at `offset`.  Returns the offset after the record.
startup_start(d, offset, a) ==
    LET o == offset + DWORD
        a6 == a @@ [random_seed |-> Slice(d, offset, offset + DWORD)]
    IN  IF ~HasIndex(d, o) THEN StartupRaise("IndexError", a6)
        ELSE IF At(d, o) \notin DOMAIN SELECT_MODES THEN StartupRaise("KeyError", a6)
        ELSE IF ~HasIndex(d, o + 1) THEN StartupRaise("IndexError", a6)
        ELSE [err |-> "", offset |-> o + 2,
              a |-> a6 @@ [select_mode |-> SELECT_MODES[At(d, o)],
                           num_start_positions |-> At(d, o + 1)]]

\* _parse_startup, the slot records: sl is what the slot-info section gave
startup_slots(d, a, sl) ==
    IF sl.err # "" THEN StartupRaise(sl.err, a)
    ELSE startup_start(d, sl.offset, [a EXCEPT !.slot_records = sl.slot_records])

\* _parse_startup, the further players: pl is what the loop over them gave
startup_players(d, a, pl) ==
    IF pl.err # "" THEN StartupRaise(pl.err, [a EXCEPT !.players = pl.players])
    ELSE startup_slots(d, [a EXCEPT !.players = pl.players], parse_slot_info(d, pl.offset))

\* _parse_startup, player count, game type and language id at `offset`
startup_game(d, offset, a) ==
    LET o == offset + 4
        priv == At(d, o + 1)
    IN  IF ~HasIndex(d, o) THEN StartupRaise("IndexError", a)
        ELSE IF At(d, o) \notin DOMAIN GAME_TYPES THEN StartupRaise("KeyError", a)
        ELSE IF ~HasIndex(d, o + 1) THEN StartupRaise("IndexError", a)
        ELSE startup_players(
                 d,
                 a @@ [player_count |-> b2i(Slice(d, offset, offset + 4)),
                       game_type |-> GAME_TYPES[At(d, o)],
                       ispublic |-> (priv = 0), isprivate |-> (priv = 8),
                       language_id |-> Slice(d, o + 2 + WORD, o + 2 + WORD + 4)],
                 more_players(d, o + 2 + WORD + 4, a.players))

\* _parse_startup, the settings: bz is the decoded string that starts at `offset`
startup_settings(d, offset, a, bz, st) ==
    IF bz.err # "" THEN StartupRaise(bz.err, a)
    ELSE IF st.err # "" THEN StartupRaise(st.err, a)
    ELSE startup_game(d, offset + bz.pos + 1, a @@ [settings |-> st.a])

\* _parse_startup, the game name at `offset`; the settings string follows it and
\* one more zero byte
startup_game_name(d, offset, a, game_name) ==
    LET o == offset + game_name.i + 1 + 1
        bz == blizdecomp(From(d, o))
    IN  IF game_name.err # "" THEN StartupRaise(game_name.err, a)
        ELSE startup_settings(d, o, a @@ [game_name |-> game_name.s], bz,
                              IF bz.err # "" THEN bz ELSE parse_settings(bz.d))

\* _parse_startup, the host's player record
startup_host(d, host) ==
    IF host.err # "" THEN StartupRaise(host.err, Unset)
    ELSE startup_game_name(d, 4 + host.p.size, [Unset EXCEPT !.players = <<host.p>>],
                           nulltermstr(From(d, 4 + host.p.size)))

\* _parse_startup: the offset returned and the attributes assigned, or the
\* exception raised and the attributes assigned before it.
parse_startup(d) == startup_host(d, Player_from_raw(From(d, 4)))

(***************************************************************************)
(* The byte source.  f.read(k) returns the bytes from the position to the  *)
(* end of the file at most, and the position moves by what was read;       *)
(* seeking past the end is allowed and reads there return b''.             *)
(***************************************************************************)
read(file, pos, k) == Slice(file, pos, pos + k)
tell(file, pos, k) == pos + Len(read(file, pos, k))

\* s[::-1]
reversed(s) == [i \in 1..Len(s) |-> s[Len(s) + 1 - i]]

\* zlib.decompress.  zlib is a library outside this repository: a compressed
\* stream is written here as the byte 0x78 followed by the bytes it inflates
\* to, and every other string is malformed (zlib.error).
zlib_decompress(raw) ==
    IF Len(raw) >= 1 /\ raw[1] = 120 THEN [err |-> "", dat |-> Tail(raw)]
    ELSE [err |-> "zlib.error", dat |-> <<>>]

\* _read_header: the attributes it sets and the position it leaves, or the
\* exception it raises.
read_header(file) ==
    LET hv == b2i(read(file, 36, DWORD))
        h0 == [header_size |-> b2i(read(file, 28, DWORD)),
               file_size_compressed |-> b2i(read(file, 32, DWORD)),
               header_version |-> hv,
               file_size_decompressed |-> b2i(read(file, 40, DWORD)),
               nblocks |-> b2i(read(file, 44, DWORD))]
        version_id_str == decode(reversed(read(file, 48, DWORD)))
        p1 == IF hv = 0 THEN 48 + WORD ELSE tell(file, 48, DWORD)
        k1 == IF hv = 0 THEN WORD ELSE DWORD
        p2 == tell(file, p1, k1)
        p3 == tell(file, p2, WORD)
        p4 == tell(file, p3, WORD)
        p5 == tell(file, p4, DWORD)
        iflags == b2i(read(file, p3, WORD))
    IN  IF hv # 0 /\ hv # 1 THEN [err |-> "ValueError", a |-> h0, loc |-> 48]
        ELSE IF hv = 1 /\ version_id_str.err # ""
        THEN [err |-> version_id_str.err, a |-> h0, loc |-> p1]
        ELSE [err |-> "",
              a |-> h0 @@ [version_id_str |-> IF hv = 1 THEN version_id_str.s ELSE None,
                           version_num |-> b2i(read(file, p1, k1)),
                           build_num |-> b2i(read(file, p2, WORD)),
                           flags |-> read(file, p3, WORD),
                           singleplayer |-> (iflags = 0),
                           multiplayer |-> (iflags = 32768),
                           replay_length |-> b2i(read(file, p4, DWORD)),
                           header_checksum |-> b2i(read(file, p5, DWORD))],
              loc |-> tell(file, p5, DWORD)]

idleVars == <<data, consumed, startup, events, clock, lastleft, callVars>>

\* File.__init__ up to the end of _read_header.
ReadHeader ==
    /\ pc = "header"
    /\ LET r == read_header(f)
       IN  /\ header' = r.a
           /\ IF r.err # ""
              THEN pc' = "failed" /\ err' = r.err /\ loc' = r.loc
              ELSE pc' = "blocks" /\ err' = "" /\ loc' = r.a.header_size
    /\ UNCHANGED <<f, nblk, buf, idleVars>>

\* _read_blocks: one turn of the loop over range(nblocks).
ReadBlock ==
    /\ pc = "blocks"
    /\ nblk < header.nblocks
    /\ LET block_size == b2i(read(f, loc, WORD))
           p1 == tell(f, loc, WORD)
           block_size_decomp == b2i(read(f, p1, WORD))
           p2 == tell(f, p1, WORD) + DWORD
           raw == read(f, p2, block_size)
           z == zlib_decompress(raw)
       IN  /\ loc' = tell(f, p2, block_size)
           /\ IF z.err # "" \/ Len(z.dat) # block_size_decomp
              THEN pc' = "failed" /\ err' = "zlib.error" /\ UNCHANGED <<nblk, buf>>
              ELSE /\ buf' = buf \o z.dat
                   /\ nblk' = nblk + 1
                   /\ UNCHANGED <<pc, err>>
    /\ UNCHANGED <<f, header, idleVars>>

\* _read_blocks after the loop: self._parse_blocks(data), up to the read of the
\* first blockid (_parse_startup included).
ParseStartup ==
    /\ pc = "blocks"
    /\ nblk >= header.nblocks
    /\ LET r == parse_startup(buf)
       IN  /\ startup' = r.a
           /\ IF r.err # ""
              THEN pc' = "failed" /\ err' = r.err /\ data' = buf
              ELSE pc' = "events" /\ err' = "" /\ data' = From(buf, r.offset)
    /\ events' = <<>>
    /\ clock' = 0
    /\ lastleft' = 0
    /\ consumed' = <<>>
    /\ UNCHANGED <<fileVars, callVars>>

(***************************************************************************)
(* File.player and File.player_name, behind functools.lru_cache(13).  A    *)
(* cache is the sequence of its entries, the least recently used first.    *)
(***************************************************************************)
CacheSize == 13

cache_index(c, key) ==
    IF \E i \in 1..Len(c) : c[i].key = key
    THEN CHOOSE i \in 1..Len(c) : c[i].key = key
    ELSE 0

\* a hit: the entry becomes the most recently used
cache_touch(c, i) == SubSeq(c, 1, i - 1) \o SubSeq(c, i + 1, Len(c)) \o <<c[i]>>

\* a miss that returned: the result is stored, the oldest entry dropped when full
cache_put(c, key, val) ==
    LET c2 == Append(c, [key |-> key, val |-> val])
    IN  IF Len(c2) > CacheSize THEN Tail(c2) ELSE c2

\* File.player, the body
player(st, pid) ==
    LET players == st.players
    IN  IF pid < Len(players) /\ At(players, pid).id = pid
        THEN [err |-> "", val |-> At(players, pid)]
        ELSE IF \E i \in 1..Len(players) : players[i].id = pid
        THEN [err |-> "",
              val |-> players[CHOOSE i \in 1..Len(players) :
                                 /\ players[i].id = pid
                                 /\ \A k \in 1..(i - 1) : players[k].id # pid]]
        ELSE IF HasIndex(st.slot_records, pid)
        THEN [err |-> "", val |-> At(st.slot_records, pid)]
        ELSE [err |-> "IndexError", val |-> None]

\* File.player through its cache: the result and the cache it leaves
cached_player(c, st, pid) ==
    LET i == cache_index(c.player, pid)
        r == player(st, pid)
    IN  IF i # 0
        THEN [err |-> "", val |-> c.player[i].val,
              cache |-> [c EXCEPT !.player = cache_touch(c.player, i)]]
        ELSE IF r.err # "" THEN [err |-> r.err, val |-> None, cache |-> c]
        ELSE [err |-> "", val |-> r.val,
              cache |-> [c EXCEPT !.player = cache_put(c.player, pid, r.val)]]

\* File.player_name through its cache
cached_player_name(c, st, pid) ==
    LET i == cache_index(c.player_name, pid)
        r == cached_player(c, st, pid)
        name == IF r.val.cls = "SlotRecord" THEN "observer" ELSE r.val.name
    IN  IF i # 0
        THEN [err |-> "", val |-> c.player_name[i].val,
              cache |-> [c EXCEPT !.player_name = cache_touch(c.player_name, i)]]
        ELSE IF r.err # "" THEN [err |-> r.err, val |-> None, cache |-> r.cache]
        ELSE [err |-> "", val |-> name,
              cache |-> [r.cache EXCEPT
                            !.player_name = cache_put(r.cache.player_name, pid, name)]]

\* the ids looked up
MaxPid == 1
LookupPids == 0..MaxPid

Player ==
    /\ pc = "done"
    /\ \E pid \in LookupPids :
          LET r == cached_player(cache, startup, pid)
          IN  /\ arg' = [op |-> "player", pid |-> pid]
              /\ ret' = [op |-> "player", val |-> r.val]
              /\ err' = r.err
              /\ cache' = r.cache
    /\ UNCHANGED <<pc, fileVars, data, consumed, startup, events, clock, lastleft>>

PlayerName ==
    /\ pc = "done"
    /\ \E pid \in LookupPids :
          LET r == cached_player_name(cache, startup, pid)
          IN  /\ arg' = [op |-> "player_name", pid |-> pid]
              /\ ret' = [op |-> "player_name", val |-> r.val]
              /\ err' = r.err
              /\ cache' = r.cache
    /\ UNCHANGED <<pc, fileVars, data, consumed, startup, events, clock, lastleft>>

(***************************************************************************)
(* Inputs: replay files, written by the encoders below.                    *)
(***************************************************************************)
MaxBlocks == 2
MaxSlots == 2

RECURSIVE blizcomp(_)
\* the transform blizdecomp undoes: runs of 7 bytes behind a mask byte whose bit
\* 0 is set; an even byte is stored plus one with its mask bit clear
blizcomp(d) ==
    IF d = <<>> THEN <<>>
    ELSE LET run == Slice(d, 0, 7)
             m[k \in 0..Len(run)] ==
                 IF k = 0 THEN 1 ELSE m[k - 1] + (IF run[k] % 2 = 1 THEN 2 ^ k ELSE 0)
         IN  <<m[Len(run)]>>
                \o [k \in 1..Len(run) |-> IF run[k] % 2 = 1 THEN run[k] ELSE run[k] + 1]
                \o blizcomp(From(d, 7))

MkHeader(hv, total, nblocks) ==
    Zeros(28)
        \o i2b(IF hv = 0 THEN 64 ELSE 68, 4) \o i2b(0, 4) \o i2b(hv, 4)
        \o i2b(total, 4) \o i2b(nblocks, 4)
        \o (IF hv = 0 THEN <<0, 0>> \o i2b(26, 2) ELSE <<80, 88, 51, 87>> \o i2b(26, 4))
        \o i2b(6059, 2) \o <<0, 128>> \o i2b(754000, 4) \o i2b(12345, 4)

MkBlock(payload, declared, wellformed) ==
    i2b(1 + Len(payload), 2) \o i2b(declared, 2) \o Zeros(4)
        \o <<IF wellformed THEN 120 ELSE 0>> \o payload

MkPlayer(tag, id, name, kind) ==
    <<tag, id>> \o name \o <<0>>
        \o (IF kind = 1 THEN <<1, 0>>
            ELSE IF kind = 8 THEN <<8>> \o i2b(1000, 4) \o i2b(2, 4)
            ELSE <<kind>>)

\* a slot record of sz bytes for player id
MkSlot(id, sz) == Slice(<<id, 100, 2, 0, 1, 3, 2, 1, 90, 0, 0>>, 0, sz)

\* settings (13 bytes), map name, creator name
DefSettings == <<2, 72, 6, 66, 0, 0, 0, 0, 0, 0, 0, 0, 0>> \o <<109, 0>> \o <<99, 0>>

\* p: hostid, kind, extra (ids of the further players), enc (the encoded
\* settings string), game_type, nstartbytes, nrecs, slots (the bytes of the
\* slot records), select_mode
MkStartup(p) ==
    <<16, 1, 0, 0>>
        \o MkPlayer(0, p.hostid, <<65>>, p.kind)
        \o <<103, 0>> \o <<0>>
        \o p.enc \o <<0>>
        \o i2b(1 + Len(p.extra), 4) \o <<p.game_type, 0>> \o <<0, 0>> \o <<101, 110, 85, 83>>
        \o Flatten([i \in 1..Len(p.extra) |->
                       MkPlayer(22, p.extra[i], <<66>>, p.kind) \o Zeros(4)])
        \o <<25>> \o i2b(p.nstartbytes, 2) \o <<p.nrecs>> \o p.slots
        \o i2b(4660, 4) \o <<p.select_mode, 2>>

DefStartup ==
    [hostid |-> 1, kind |-> 1, extra |-> <<2>>, enc |-> blizcomp(DefSettings),
     game_type |-> 9, nstartbytes |-> 7 + 2 * 8, nrecs |-> 2,
     slots |-> MkSlot(1, 8) \o MkSlot(2, 8), select_mode |-> 0]

\* a stream with one record of each decoded kind
DefStream ==
    MkLeft(12, 1, 7, 0) \o MkTimeSlot(31, 100, <<>>) \o MkChat(1, 32, 0, <<104, 105>>)
        \o MkCountdown(0, 30) \o MkFixed(26) \o MkLeft(12, 2, 7, 1) \o <<0>>

\* d cut into nb pieces of (nearly) equal length
Pieces(d, nb) ==
    [k \in 1..nb |-> Slice(d, ((k - 1) * Len(d)) \div nb, (k * Len(d)) \div nb)]

\* One well-formed block holding d, behind a version-1 header that agrees.
OneBlockFile(d) == MkHeader(1, Len(d), 1) \o MkBlock(d, Len(d), TRUE)

\* Files whose header and blocks vary: nb blocks; the header's version hv, its
\* total off by dtotal, its block count off by dn; block `bad` declaring one byte
\* too many and block `corrupt` malformed (0: none).
BlockFile(nb, hv, dtotal, dn, bad, corrupt) ==
    LET d == MkStartup(DefStartup) \o <<0>>
        ps == Pieces(d, nb)
    IN  MkHeader(hv, Len(d) + dtotal, nb + dn)
            \o Flatten([k \in 1..nb |->
                           MkBlock(ps[k], Len(ps[k]) + (IF k = bad THEN 1 ELSE 0),
                                   k # corrupt)])

\* Files whose slot-info section varies: n slot records of sz bytes each, the
\* section's byte count off by delta.
SlotFile(n, sz, delta) ==
    OneBlockFile(
        MkStartup([DefStartup EXCEPT
                      !.nstartbytes = Max(7 + n * sz + delta, 0), !.nrecs = n,
                      !.slots = Flatten([k \in 1..n |-> MkSlot(k, sz)])])
            \o <<0>>)

\* Files whose players and slot records vary.
PlayerFile(hostid, extra, kind, slotids) ==
    OneBlockFile(
        MkStartup([DefStartup EXCEPT
                      !.hostid = hostid, !.extra = extra, !.kind = kind,
                      !.nstartbytes = 7 + 8 * Len(slotids), !.nrecs = Len(slotids),
                      !.slots = Flatten([k \in 1..Len(slotids) |-> MkSlot(slotids[k], 8)])])
            \o <<0>>)

\* Files with a field of the startup record out of its table, or a settings
\* string that decodes to too little.
OddStartups ==
    { [DefStartup EXCEPT !.enc = <<0, 105, 102, 109, 109, 112>>],
      [DefStartup EXCEPT !.enc = <<>>],
      [DefStartup EXCEPT !.enc = blizcomp(<<2, 72, 6>>)],
      [DefStartup EXCEPT !.enc = blizcomp(<<2, 72, 6, 66>>)],
      [DefStartup EXCEPT !.game_type = 2],
      [DefStartup EXCEPT !.select_mode = 2],
      [DefStartup EXCEPT !.slots = MkSlot(1, 8) \o <<2, 100, 7, 0, 1, 3, 2, 1>>],
      [DefStartup EXCEPT !.slots = MkSlot(1, 8) \o <<2, 100, 2, 0, 1, 13, 2, 1>>],
      [DefStartup EXCEPT !.slots = MkSlot(1, 8) \o <<2, 100, 2, 0, 1, 3, 2, 3>>] }

Init ==
    /\ pc = "header"
    /\ \/ \E nb \in 1..MaxBlocks, hv \in 0..2, dtotal \in {-1, 0, 1}, dn \in {-1, 0, 1},
            bad \in 0..MaxBlocks, corrupt \in 0..MaxBlocks :
             f = BlockFile(nb, hv, dtotal, dn, bad, corrupt)
       \/ \E n \in 0..MaxSlots, sz \in 6..10, delta \in {-8, -1, 0, 1} :
             f = SlotFile(n, sz, delta)
       \/ \E hostid \in {0, 1}, extra \in {<<>>, <<0>>, <<1>>, <<2, 0>>}, kind \in {1, 8, 3},
            slotids \in {<<1, 2>>, <<0, 1>>, <<5, 1>>, <<7>>} :
             f = PlayerFile(hostid, extra, kind, slotids)
       \/ \E p \in OddStartups : f = OneBlockFile(MkStartup(p) \o <<0>>)
       \/ \E r \in Recs \cup SingleRecs :
             f = OneBlockFile(MkStartup(DefStartup) \o r \o <<0>>)
       \/ \E d \in {DefStream, <<>>, <<23, 1>>} :
             f = OneBlockFile(MkStartup(DefStartup) \o d)
       \/ \E k \in {0, 30, 47, 60, 67, 68} : f = Slice(OneBlockFile(<<>>), 0, k)
    /\ loc = 0
    /\ header = None
    /\ nblk = 0
    /\ buf = <<>>
    /\ data = <<>>
    /\ consumed = <<>>
    /\ startup = Unset
    /\ events = <<>>
    /\ clock = 0
    /\ lastleft = 0
    /\ cache = NoCache
    /\ arg = NoCall
    /\ ret = NoCall
    /\ err = ""

Next ==
    \/ ReadHeader
    \/ ReadBlock
    \/ ParseStartup
    \/ ParseLeaveGame
    \/ SkipFixed
    \/ ParseTimeSlot
    \/ ParseChat
    \/ ParseCountdown
    \/ UnknownBlock
    \/ EndOfBlocks
    \/ NoBlockId
    \/ Result
    \/ Player
    \/ PlayerName

Spec == Init /\ [][Next]_vars

(***************************************************************************)
(* Properties of the decode of a whole file and of the lookups.            *)
(***************************************************************************)
\* the parser was handed the buffer and decoded the startup record
StartupDecoded == pc \in {"events", "done"}

\* C6: with section byte count B and declared slot-record count n, the startup
\* parse goes on only when (B - 7) / n is an integer in [7, 9]; for every other
\* (B, n) it fails and no slot records are produced.
C6_SlotSizeValidation ==
    \A n \in 0..MaxSlots, sz \in 6..10, delta \in {-8, -1, 0, 1} :
        LET B == Max(7 + n * sz + delta, 0)
            integral == n > 0 /\ (B - 7) % n = 0 /\ (B - 7) \div n \in 7..9
        IN  (f = SlotFile(n, sz, delta) /\ pc \notin {"header", "blocks"} /\ ~integral)
                => (pc = "failed" /\ startup.slot_records = <<>>)

\* the block written at pos: its declared decompressed length, its compressed
\* bytes and the position of the block after it
BlockAt(file, pos) ==
    LET block_size == b2i(Slice(file, pos, pos + WORD))
    IN  [declared |-> b2i(Slice(file, pos + WORD, pos + 2 * WORD)),
         raw |-> Slice(file, pos + 2 * WORD + DWORD, pos + 2 * WORD + DWORD + block_size),
         next |-> pos + 2 * WORD + DWORD + block_size]

RECURSIVE BlocksFrom(_, _, _)
\* the n blocks written from pos on
BlocksFrom(file, pos, n) ==
    IF n <= 0 THEN <<>>
    ELSE <<BlockAt(file, pos)>> \o BlocksFrom(file, BlockAt(file, pos).next, n - 1)

\* C8: the decode gets to the parser only if every one of the header's
\* blockCount blocks decompresses to exactly its declared length; the buffer
\* handed to the parser is then the concatenation of the decompressed payloads
\* in block order, and its length is the header's declared total decompressed
\* size.
C8_BlockStream ==
    StartupDecoded =>
        LET bs == BlocksFrom(f, header.header_size, header.nblocks)
            z == [k \in 1..Len(bs) |-> zlib_decompress(bs[k].raw)]
        IN  /\ \A k \in 1..Len(bs) : z[k].err = "" /\ Len(z[k].dat) = bs[k].declared
            /\ buf = Flatten([k \in 1..Len(bs) |-> z[k].dat])
            /\ Len(buf) = header.file_size_decompressed

\* C9: player(id) returns the Player whose id is id when there is one, wherever
\* it sits in the list; otherwise a SlotRecord whose player id is id, and
\* player_name(id) is then "observer"; when neither matches the lookup is an
\* error.
C9_PlayerLookup ==
    (pc = "done" /\ arg.op \in {"player", "player_name"}) =>
        LET pid == arg.pid
            ps == {startup.players[i] : i \in 1..Len(startup.players)}
            srs == {startup.slot_records[i] : i \in 1..Len(startup.slot_records)}
        IN  IF \E p \in ps : p.id = pid
            THEN /\ err = ""
                 /\ arg.op = "player" => ret.val \in {p \in ps : p.id = pid}
                 /\ arg.op = "player_name" => ret.val \in {p.name : p \in {q \in ps : q.id = pid}}
            ELSE IF \E r \in srs : r.player_id = pid
            THEN /\ err = ""
                 /\ arg.op = "player" => ret.val \in {r \in srs : r.player_id = pid}
                 /\ arg.op = "player_name" => ret.val = "observer"
            ELSE err # ""

====
